---------------------------- MODULE Spec2Model ----------------------------
(***************************************************************************)
(* A model of part_3_eng_pos_tags/scripts/utils.py:                        *)
(*   - penntreebank2universal, the Penn Treebank -> universal tag mapper,  *)
(*   - load_data_split, the corpus loader that sets the gold entities,     *)
(*   - tag_all, the pass that threads documents through labeling functions.*)
(*                                                                         *)
(* A Python string is a sequence of one-character strings, so that         *)
(* startswith, split and "%s-%s" formatting are computed, not assumed.     *)
(* A POS label of the corpus (tok.pos_) is only ever compared, and is an   *)
(* atomic string.                                                          *)
(***************************************************************************)
EXTENDS Integers, Sequences, FiniteSets, TLC

VARIABLES
    \* penntreebank2universal
    tag,        \* the argument
    result,     \* the returned value, NoString before the call returns
    order,      \* the order in which the rules are tried
    mpc,        \* "idle" | "ready" | "done"
    \* load_data_split
    corpus,     \* the documents stored in corpus/UD_English-EWT/<split>.spacy
    all_labels, \* the allow-list argument
    subset,     \* the subset argument: <<>> for None, <<m>> for the integer m
    loaded,     \* the returned list of documents, <<>> before the return
    lpc,        \* "idle" | "ready" | "done"
    \* tag_all
    heap,       \* object id -> the document stored there
    docs,       \* the docs argument: a sequence of object ids
    lfs,        \* the lfs argument: a sequence of labeling functions
    di,         \* position of the outer loop (1-based index into docs)
    li,         \* position of the inner loop (1-based index into lfs)
    doc,        \* the loop variable doc: an object id, 0 while unbound
    calls,      \* the calls of labeling functions made so far, in order
    ret,        \* the value tag_all returned (meaningful when tpc = "returned")
    tpc         \* "idle" | "ready" | "outer" | "inner" | "returned" | "raised"

mapVars  == <<tag, result, order, mpc>>
loadVars == <<corpus, all_labels, subset, loaded, lpc>>
tagVars  == <<heap, docs, lfs, di, li, doc, calls, ret, tpc>>
vars     == <<mapVars, loadVars, tagVars>>

\* Python's None where a string is expected: no string has an element of
\* more than one character.
NoString == <<"None">>

----------------------------------------------------------------------------
(* Bounds *)

MaxTagLen    == 3   \* longest arbitrary tag string tried
MaxSuffixLen == 3   \* longest suffix tried after "NNP-" / "NNPS-"
MaxDocs      == 2   \* most documents in the corpus file
MaxTokens    == 2   \* most tokens in a document of the corpus
MaxLfs       == 3   \* most labeling functions passed to tag_all

----------------------------------------------------------------------------
(* Python string operations *)

\* All sequences over S of length 0..n.
RECURSIVE SeqsUpTo(_, _)
SeqsUpTo(S, n) ==
    IF n = 0 THEN {<<>>}
    ELSE LET shorter == SeqsUpTo(S, n - 1)
         IN  shorter \cup {Append(s, c) : s \in {t \in shorter : Len(t) = n - 1}, c \in S}

\* str.startswith(prefix)
StartsWith(s, prefix) ==
    /\ Len(s) >= Len(prefix)
    /\ SubSeq(s, 1, Len(prefix)) = prefix

\* str.startswith((p1, p2, ...)): true if s starts with any of the prefixes
StartsWithAny(s, prefixes) == \E p \in prefixes : StartsWith(s, p)

\* str.split(sep) for a one-character sep: the list of the segments between
\* the separators (always at least one segment, possibly empty).
RECURSIVE SplitFrom(_, _, _, _)
SplitFrom(s, sep, i, cur) ==
    IF i > Len(s) THEN <<cur>>
    ELSE IF s[i] = sep THEN <<cur>> \o SplitFrom(s, sep, i + 1, <<>>)
    ELSE SplitFrom(s, sep, i + 1, Append(cur, s[i]))

Split(s, sep) == SplitFrom(s, sep, 1, <<>>)

\* list[-1]
LastOf(l) == l[Len(l)]

\* "%s-%s" % (a, b)
FormatDash(a, b) == a \o <<"-">> \o b

----------------------------------------------------------------------------
(* The universal tag names, utils.py lines 46-47 *)

NOUN  == <<"N","O","U","N">>
VERB  == <<"V","E","R","B">>
ADJ   == <<"A","D","J">>
ADV   == <<"A","D","V">>
PRON  == <<"P","R","O","N">>
DET   == <<"D","E","T">>
PREP  == <<"P","R","E","P">>
ADP   == <<"A","D","P">>
NUM   == <<"N","U","M">>
CONJ  == <<"C","O","N","J">>
INTJ  == <<"I","N","T","J">>
PRT   == <<"P","A","R","T">>
PUNC  == <<"P","U","N","C","T">>
X     == <<"X">>
PROPN == <<"P","R","O","P","N">>

(* The membership tables of penntreebank2universal, lines 68-92 *)

CompoundPrefixes == { <<"N","N","P","-">>, <<"N","N","P","S","-">> }
\* NounTags that also lists the proper-noun tags of the next rule
NounTagsWithProper ==
    { <<"N","N">>, <<"N","N","S">>, <<"N","P">>, <<"N","N","P">>, <<"N","N","P","S">> }
NounTags  == { <<"N","N">>, <<"N","N","S">>, <<"N","P">> }
PropnTags == { <<"N","N","P">>, <<"N","N","P","S">> }
\* VerbTags without the modal, as in the tag list commented out at line 59
VerbTagsNoModal ==
    { <<"V","B">>, <<"V","B","D">>, <<"V","B","G">>, <<"V","B","N">>,
      <<"V","B","P">>, <<"V","B","Z">> }
VerbTags  == { <<"M","D">>, <<"V","B">>, <<"V","B","D">>, <<"V","B","G">>,
               <<"V","B","N">>, <<"V","B","P">>, <<"V","B","Z">> }
AdjTags   == { <<"J","J">>, <<"J","J","R">>, <<"J","J","S">> }
AdvTags   == { <<"R","B">>, <<"R","B","R">>, <<"R","B","S">>, <<"W","R","B">> }
PronTags  == { <<"P","R","P">>, <<"P","R","P","$">>, <<"W","P">>, <<"W","P","$">> }
DetTags   == { <<"D","T">>, <<"P","D","T">>, <<"W","D","T">>, <<"E","X">> }
PrepTags  == { <<"I","N">> }
NumTags   == { <<"C","D">> }
ConjTags  == { <<"C","C">> }
IntjTags  == { <<"U","H">> }
PrtTags   == { <<"P","O","S">>, <<"R","P">>, <<"T","O">> }
PuncTags  == { <<"S","Y","M">>, <<"L","S">>, <<".">>, <<"!">>, <<"?">>, <<",">>,
               <<":">>, <<"(">>, <<")">>, <<"\"">>, <<"#">>, <<"$">> }

\* The rules in source order: rule 1 is the prefix test of line 66, rules
\* 2..14 are the membership tests of lines 68..92.
NumRules == 14

RuleMatches(i, t) ==
    CASE i = 1  -> StartsWithAny(t, CompoundPrefixes)
      [] i = 2  -> t \in NounTags
      [] i = 3  -> t \in PropnTags
      [] i = 4  -> t \in VerbTags
      [] i = 5  -> t \in AdjTags
      [] i = 6  -> t \in AdvTags
      [] i = 7  -> t \in PronTags
      [] i = 8  -> t \in DetTags
      [] i = 9  -> t \in PrepTags
      [] i = 10 -> t \in NumTags
      [] i = 11 -> t \in ConjTags
      [] i = 12 -> t \in IntjTags
      [] i = 13 -> t \in PrtTags
      [] i = 14 -> t \in PuncTags

\* The suffix kept by line 67: tag.split("-")[-1]
CompoundSuffix(t) == LastOf(Split(t, "-"))

RuleResult(i, t) ==
    CASE i = 1  -> FormatDash(NOUN, CompoundSuffix(t))
      [] i = 2  -> NOUN
      [] i = 3  -> PROPN
      [] i = 4  -> VERB
      [] i = 5  -> ADJ
      [] i = 6  -> ADV
      [] i = 7  -> PRON
      [] i = 8  -> DET
      [] i = 9  -> PREP
      [] i = 10 -> NUM
      [] i = 11 -> CONJ
      [] i = 12 -> INTJ
      [] i = 13 -> PRT
      [] i = 14 -> PUNC

\* The chain without its final return: falling off the end returns no value
RECURSIVE FirstMatchNoDefault(_, _, _)
FirstMatchNoDefault(ord, k, t) ==
    IF k > Len(ord) THEN NoString
    ELSE IF RuleMatches(ord[k], t) THEN RuleResult(ord[k], t)
    ELSE FirstMatchNoDefault(ord, k + 1, t)

\* The chain of if ... return statements tried in the order ord, then the
\* final "return X".
RECURSIVE FirstMatch(_, _, _)
FirstMatch(ord, k, t) ==
    IF k > Len(ord) THEN X
    ELSE IF RuleMatches(ord[k], t) THEN RuleResult(ord[k], t)
    ELSE FirstMatch(ord, k + 1, t)

SourceOrder == [i \in 1..NumRules |-> i]

penntreebank2universal(t) == FirstMatch(SourceOrder, 1, t)

----------------------------------------------------------------------------
(* load_data_split, lines 8-36 *)

\* A document is [pos: the tok.pos_ of its tokens in order (token i of
\* Python is pos[i + 1]), ents: the set of its entity spans]; a span is
\* [start, end, label] over the token range [start, end).
Span(start, end, label) == [start |-> start, end |-> end, label |-> label]

\* data[:m], lines 18-19: the first m elements, or for a negative m all but
\* the last -m.
PySliceToInclusive(data, m) ==
    LET stop == IF m >= 0 THEN (IF m + 1 < Len(data) THEN m + 1 ELSE Len(data))
                ELSE (IF Len(data) + m + 1 > 0 THEN Len(data) + m + 1 ELSE 0)
    IN  SubSeq(data, 1, stop)
PySliceTo(data, m) ==
    LET stop == IF m >= 0 THEN (IF m < Len(data) THEN m ELSE Len(data))
                ELSE (IF Len(data) + m > 0 THEN Len(data) + m ELSE 0)
    IN  SubSeq(data, 1, stop)

\* isinstance(subset, int), line 18
IsInt(sub) == Len(sub) = 1

\* The loop of lines 28-34 from token i (0-based) on: the list ents.
RECURSIVE GoldEntsFrom(_, _, _)
GoldEntsFrom(d, labels, i) ==
    IF i >= Len(d.pos) THEN <<>>
    ELSE IF d.pos[i + 1] \in labels
         THEN <<Span(i, i + 1, d.pos[i + 1])>> \o GoldEntsFrom(d, labels, i + 1)
         ELSE GoldEntsFrom(d, labels, i + 1)

\* The loop leaving out the first token
GoldEntsAfterFirst(d, labels) == GoldEntsFrom(d, labels, 1)
GoldEnts(d, labels) == GoldEntsFrom(d, labels, 0)

\* doc.set_ents(ents), line 35, with spaCy's defaults: the listed spans
\* become the entities and every other token is outside any entity.
SetEntsMerging(d, ents) ==
    [d EXCEPT !.ents = d.ents \cup {ents[k] : k \in 1..Len(ents)}]
SetEnts(d, ents) == [d EXCEPT !.ents = {ents[k] : k \in 1..Len(ents)}]

\* The body of the loop of lines 25-35 for one document
SetGoldLabels(d, labels) == SetEnts(d, GoldEnts(d, labels))

load_data_split(stored, labels, sub) ==
    LET data   == stored                                         \* line 17
        sliced == IF IsInt(sub) THEN PySliceTo(data, sub[1]) ELSE data
        copies == [i \in 1..Len(sliced) |-> sliced[i]]           \* line 22
    IN  [i \in 1..Len(copies) |-> SetGoldLabels(copies[i], labels)]

\* The inputs tried for load_data_split
PosLabels == {"DET", "NOUN"}
LabelUniverse == {"DET", "NOUN", "PROPN"}

\* The entity a reference document carries before the labeling
PriorEnts(pos, prior) ==
    IF prior /\ Len(pos) > 0 THEN {Span(0, Len(pos), "ORG")} ELSE {}

Corpora ==
    {[i \in 1..Len(ps) |-> [pos |-> ps[i], ents |-> PriorEnts(ps[i], prior)]] :
        ps \in SeqsUpTo(SeqsUpTo(PosLabels, MaxTokens), MaxDocs), prior \in BOOLEAN}

SubsetValues == {<<>>} \cup {<<m>> : m \in (0 - 1)..(MaxDocs + 1)}

----------------------------------------------------------------------------
(* tag_all, lines 39-43 *)

\* A document object of tag_all is heap[id]: the list of the labeling
\* functions (their positions in lfs) that have annotated it, in order.  A
\* labeling function is one of
\*   "inplace"  annotates the document it is given and returns it,
\*   "fresh"    returns an annotated copy and leaves its argument alone,
\*   "flaky"    behaves as "inplace" or raises an exception.
LfKinds == {"inplace", "fresh", "flaky"}

\* What line 42 passes to lf: the loop variable doc, not the list element
LfArgumentOriginal(ds, i, working) == ds[i]
LfArgument(ds, i, working) == working

\* The list docs after line 42 has bound the value r returned for its
\* element i: the assignment rebinds the local name only.
DocsAfterCallStored(ds, i, r) == [ds EXCEPT ![i] = r]
DocsAfterCall(ds, i, r) == ds

\* Where control is after a labeling function raised: nothing in tag_all
\* catches the exception.
AfterRaiseSwallowed == "inner"
AfterRaise == "raised"

\* One entry of the call log
Call(i, j, arg, out) == [doc |-> i, lf |-> j, arg |-> arg, out |-> out]

\* tag_all(docs, lfs) is entered.
TagAllEnter ==
    /\ tpc = "ready"
    /\ tpc' = "outer"
    /\ UNCHANGED <<heap, docs, lfs, di, li, doc, calls, ret, mapVars, loadVars>>

\* for doc in docs (line 40): the next element is bound to doc.
BindDoc ==
    /\ tpc = "outer"
    /\ di < Len(docs)
    /\ di' = di + 1
    /\ doc' = docs[di + 1]
    /\ li' = 0
    /\ tpc' = "inner"
    /\ UNCHANGED <<heap, docs, lfs, calls, ret, mapVars, loadVars>>

\* doc = lf(doc) (lines 41-42) with an lf that annotates in place.
CallInPlace ==
    /\ tpc = "inner"
    /\ li < Len(lfs)
    /\ lfs[li + 1] \in {"inplace", "flaky"}
    /\ LET arg == LfArgument(docs, di, doc)
       IN  /\ heap' = [heap EXCEPT ![arg] = Append(@, li + 1)]
           /\ calls' = Append(calls, Call(di, li + 1, arg, arg))
           /\ doc' = arg
           /\ docs' = DocsAfterCall(docs, di, arg)
    /\ li' = li + 1
    /\ UNCHANGED <<lfs, di, ret, tpc, mapVars, loadVars>>

\* doc = lf(doc) with an lf that returns a new document object.
CallFresh ==
    /\ tpc = "inner"
    /\ li < Len(lfs)
    /\ lfs[li + 1] = "fresh"
    /\ LET arg == LfArgument(docs, di, doc)
           new == Len(heap) + 1
       IN  /\ heap' = Append(heap, Append(heap[arg], li + 1))
           /\ calls' = Append(calls, Call(di, li + 1, arg, new))
           /\ doc' = new
           /\ docs' = DocsAfterCall(docs, di, new)
    /\ li' = li + 1
    /\ UNCHANGED <<lfs, di, ret, tpc, mapVars, loadVars>>

\* lf(doc) raises: the exception leaves tag_all (out = 0 in the log).
CallRaise ==
    /\ tpc = "inner"
    /\ li < Len(lfs)
    /\ lfs[li + 1] = "flaky"
    /\ calls' = Append(calls, Call(di, li + 1, LfArgument(docs, di, doc), 0))
    /\ li' = li + 1
    /\ tpc' = AfterRaise
    /\ UNCHANGED <<heap, docs, lfs, di, doc, ret, mapVars, loadVars>>

\* for lf in lfs is exhausted for this document.
EndInner ==
    /\ tpc = "inner"
    /\ li >= Len(lfs)
    /\ tpc' = "outer"
    /\ UNCHANGED <<heap, docs, lfs, di, li, doc, calls, ret, mapVars, loadVars>>

\* return docs (line 43)
TagAllReturn ==
    /\ tpc = "outer"
    /\ di >= Len(docs)
    /\ ret' = docs
    /\ tpc' = "returned"
    /\ UNCHANGED <<heap, docs, lfs, di, li, doc, calls, mapVars, loadVars>>

----------------------------------------------------------------------------
(* The inputs tried for penntreebank2universal *)

\* The category tables as the specification documents them (section 4.1):
\* pairs <<fine-grained tag, coarse category>>.
DocumentedTable ==
    {<<t, <<"N","O","U","N">>>> : t \in {<<"N","N">>, <<"N","N","S">>, <<"N","P">>}}
    \cup
    {<<t, <<"P","R","O","P","N">>>> : t \in {<<"N","N","P">>, <<"N","N","P","S">>}}
    \cup
    {<<t, <<"V","E","R","B">>>> : t \in {<<"M","D">>, <<"V","B">>, <<"V","B","D">>, <<"V","B","G">>, <<"V","B","N">>, <<"V","B","P">>, <<"V","B","Z">>}}
    \cup
    {<<t, <<"A","D","J">>>> : t \in {<<"J","J">>, <<"J","J","R">>, <<"J","J","S">>}}
    \cup
    {<<t, <<"A","D","V">>>> : t \in {<<"R","B">>, <<"R","B","R">>, <<"R","B","S">>, <<"W","R","B">>}}
    \cup
    {<<t, <<"P","R","O","N">>>> : t \in {<<"P","R","P">>, <<"P","R","P","$">>, <<"W","P">>, <<"W","P","$">>}}
    \cup
    {<<t, <<"D","E","T">>>> : t \in {<<"D","T">>, <<"P","D","T">>, <<"W","D","T">>, <<"E","X">>}}
    \cup
    {<<t, <<"P","R","E","P">>>> : t \in {<<"I","N">>}}
    \cup
    {<<t, <<"N","U","M">>>> : t \in {<<"C","D">>}}
    \cup
    {<<t, <<"C","O","N","J">>>> : t \in {<<"C","C">>}}
    \cup
    {<<t, <<"I","N","T","J">>>> : t \in {<<"U","H">>}}
    \cup
    {<<t, <<"P","R","T">>>> : t \in {<<"P","O","S">>, <<"R","P">>, <<"T","O">>}}
    \cup
    {<<t, <<"P","U","N","C">>>> : t \in {<<"S","Y","M">>, <<"L","S">>, <<".">>, <<"!">>, <<"?">>, <<",">>, <<":">>, <<"(">>, <<")">>, <<"\"">>, <<"#">>, <<"$">>}}

DocumentedTags == {p[1] : p \in DocumentedTable}

\* Arbitrary short strings: upper and lower case letters of the noun tags
\* and the separator, so that near misses of table entries occur.
TagAlphabet == {"N", "P", "S", "n", "-"}

SuffixAlphabet == {"L", "O", "-"}

CompoundInputs ==
    {p \o s : p \in CompoundPrefixes, s \in SeqsUpTo(SuffixAlphabet, MaxSuffixLen)}

TagInputs == DocumentedTags \cup SeqsUpTo(TagAlphabet, MaxTagLen) \cup CompoundInputs

\* ord with the rules at positions i and j exchanged
SwapRules(ord, i, j) ==
    [k \in 1..Len(ord) |-> IF k = i THEN ord[j] ELSE IF k = j THEN ord[i] ELSE ord[k]]

RuleOrders == {SwapRules(SourceOrder, i, j) : i \in 1..NumRules, j \in 1..NumRules}

----------------------------------------------------------------------------
(* The states in which a component of the module is not in use *)

MapIdle ==
    /\ tag = <<>> /\ result = NoString /\ order = SourceOrder /\ mpc = "idle"
LoadIdle ==
    /\ corpus = <<>> /\ all_labels = {} /\ subset = <<>> /\ loaded = <<>>
    /\ lpc = "idle"
TagIdle ==
    /\ heap = <<>> /\ docs = <<>> /\ lfs = <<>> /\ di = 0 /\ li = 0 /\ doc = 0
    /\ calls = <<>> /\ ret = <<>> /\ tpc = "idle"

----------------------------------------------------------------------------
(* penntreebank2universal(tag), called on one input *)

InitMap ==
    /\ tag \in TagInputs
    /\ result = NoString
    /\ order = SourceOrder
    /\ mpc = "ready"
    /\ LoadIdle /\ TagIdle

MapTag ==
    /\ mpc = "ready"
    /\ result' = penntreebank2universal(tag)
    /\ mpc' = "done"
    /\ UNCHANGED <<tag, order, loadVars, tagVars>>

NextMap == MapTag

SpecMap == InitMap /\ [][NextMap]_vars

(* The same rules tried in another order *)

InitOrder ==
    /\ tag \in TagInputs
    /\ result = NoString
    /\ order \in RuleOrders
    /\ mpc = "ready"
    /\ LoadIdle /\ TagIdle

MapTagReordered ==
    /\ mpc = "ready"
    /\ result' = FirstMatch(order, 1, tag)
    /\ mpc' = "done"
    /\ UNCHANGED <<tag, order, loadVars, tagVars>>

NextOrder == MapTagReordered

SpecOrder == InitOrder /\ [][NextOrder]_vars


----------------------------------------------------------------------------
(* load_data_split(split, all_labels, subset), called once *)

InitLoad ==
    /\ corpus \in Corpora
    /\ all_labels \in SUBSET LabelUniverse
    /\ subset \in SubsetValues
    /\ loaded = <<>>
    /\ lpc = "ready"
    /\ MapIdle /\ TagIdle

LoadDataSplit ==
    /\ lpc = "ready"
    /\ loaded' = load_data_split(corpus, all_labels, subset)
    /\ lpc' = "done"
    /\ UNCHANGED <<corpus, all_labels, subset, mapVars, tagVars>>

NextLoad == LoadDataSplit

SpecLoad == InitLoad /\ [][NextLoad]_vars

----------------------------------------------------------------------------
(* tag_all(docs, lfs), called once on fresh documents *)

InitTag ==
    /\ \E n \in 0..MaxDocs :
          /\ heap = [i \in 1..n |-> <<>>]
          /\ docs = [i \in 1..n |-> i]
    /\ lfs \in SeqsUpTo(LfKinds, MaxLfs)
    /\ di = 0 /\ li = 0 /\ doc = 0
    /\ calls = <<>>
    /\ ret = <<>>
    /\ tpc = "ready"
    /\ MapIdle /\ LoadIdle

NextTag ==
    \/ TagAllEnter
    \/ BindDoc
    \/ CallInPlace
    \/ CallFresh
    \/ CallRaise
    \/ EndInner
    \/ TagAllReturn

SpecTag == InitTag /\ [][NextTag]_vars

----------------------------------------------------------------------------
(* Properties of penntreebank2universal *)

\* The category names the code returns where the documented table says
\* "PRT" and "PUNC" (the values bound to PRT and PUNC at lines 46-47).
AmendedCategory(c) ==
    IF c = <<"P","R","T">> THEN <<"P","A","R","T">>
    ELSE IF c = <<"P","U","N","C">> THEN <<"P","U","N","C","T">>
    ELSE c

DocumentedPrefixes == { <<"N","N","P","-">>, <<"N","N","P","S","-">> }

\* C2 as stated: for "NNP-" + s and "NNPS-" + s with s non-empty the result
\* is "NOUN-" + s, the whole of s kept, also when s contains "-".
C2_SuffixVerbatim ==
    mpc = "done" =>
        \A p \in DocumentedPrefixes :
            (StartsWith(tag, p) /\ Len(tag) > Len(p)) =>
                result = <<"N","O","U","N","-">> \o SubSeq(tag, Len(p) + 1, Len(tag))

\* What the code does on the same inputs: only the part of s after its last
\* "-" is kept.
C2_LastSegmentOnly ==
    mpc = "done" =>
        \A p \in DocumentedPrefixes :
            (StartsWith(tag, p) /\ Len(tag) > Len(p)) =>
                result = <<"N","O","U","N","-">> \o LastOf(Split(tag, "-"))

\* C3: the function is total and every string that is in no documented table
\* and starts with no compound prefix is mapped to "X".
C3_TotalWithFallback ==
    mpc = "done" =>
        /\ result # NoString
        /\ (tag \notin DocumentedTags /\ ~ StartsWithAny(tag, DocumentedPrefixes))
               => result = <<"X">>

\* An unlisted string that differs from a table entry by case only, the
\* empty string and a table entry with an extra character all give "X".
C3_Witness ==
    /\ mpc = "done"
    /\ tag \in { <<"n","n">>, <<>>, <<"N","N","N">> }
    /\ result = <<"X">>

\* The rules whose condition holds of t
MatchingRules(t) == {i \in 1..NumRules : RuleMatches(i, t)}

\* C10: no input satisfies the conditions of two rules, and trying the rules
\* in another order gives the result of the source order.
C10_RulesExclusive ==
    mpc = "done" =>
        /\ Cardinality(MatchingRules(tag)) <= 1
        /\ result = penntreebank2universal(tag)

\* A table tag mapped with its rule moved behind later rules.
C10_Witness ==
    /\ mpc = "done"
    /\ order # SourceOrder
    /\ \E i \in MatchingRules(tag) : order[i] # i
    /\ result = penntreebank2universal(tag)

----------------------------------------------------------------------------
(* Properties of load_data_split *)

IsPrefix(a, b) == Len(a) <= Len(b) /\ SubSeq(b, 1, Len(a)) = a

\* Token positions (0-based) of document d whose tag is in the allow-list
MatchingTokens(d, labels) == {i \in 0..(Len(d.pos) - 1) : d.pos[i + 1] \in labels}

\* The distinct allow-listed tags present among the tokens of d
PresentTags(d, labels) == {d.pos[i] : i \in 1..Len(d.pos)} \cap labels

\* The result when no subset is given
FullResult == load_data_split(corpus, all_labels, <<>>)

\* C4 as stated: for every integer M the result has at most M documents and
\* is a prefix of the full result, and the result for any M1 <= M is a prefix
\* of the result for M; without a subset all documents are returned.
C4_PrefixEveryInteger ==
    lpc = "done" =>
        /\ subset = <<>> => Len(loaded) = Len(corpus)
        /\ IsInt(subset) =>
              /\ Len(loaded) <= subset[1]
              /\ IsPrefix(loaded, FullResult)
              /\ \A s1 \in SubsetValues :
                    (IsInt(s1) /\ s1[1] <= subset[1]) =>
                        IsPrefix(load_data_split(corpus, all_labels, s1), loaded)

\* C4 as amended: for every integer M the result is a prefix, in original
\* order, of the full result; it has at most M documents when M >= 0 (and all
\* but the last -M when M < 0); the result for M1 is a prefix of the result
\* for M2 whenever M1 <= M2 and not M1 < 0 <= M2; without a subset all
\* documents are returned.
C4_PrefixNonNegative ==
    lpc = "done" =>
        /\ subset = <<>> =>
              /\ Len(loaded) = Len(corpus)
              /\ \A i \in 1..Len(corpus) : loaded[i].pos = corpus[i].pos
        /\ IsInt(subset) =>
              /\ subset[1] >= 0 => Len(loaded) <= subset[1]
              /\ subset[1] < 0 =>
                    Len(loaded) = (IF Len(corpus) + subset[1] > 0
                                   THEN Len(corpus) + subset[1] ELSE 0)
              /\ IsPrefix(loaded, FullResult)
              /\ \A s1 \in SubsetValues :
                    (IsInt(s1) /\ s1[1] <= subset[1] /\ (s1[1] >= 0 \/ subset[1] < 0)) =>
                        IsPrefix(load_data_split(corpus, all_labels, s1), loaded)

\* A corpus of two documents cut to its first document.
C4_Witness ==
    /\ lpc = "done"
    /\ Len(corpus) = 2
    /\ subset = <<1>>
    /\ Len(loaded) = 1
    /\ loaded[1].pos = corpus[1].pos

\* C5: the entities of every returned document are exactly the one-token
\* spans [i, i+1) labelled with the tag of token i, for the tokens whose tag is
\* in all_labels; nothing the document carried before remains.
C5_GoldSpansExactly ==
    lpc = "done" =>
        \A k \in 1..Len(loaded) :
            /\ loaded[k].pos = corpus[k].pos
            /\ loaded[k].ents =
                  {Span(i, i + 1, corpus[k].pos[i + 1]) :
                      i \in MatchingTokens(corpus[k], all_labels)}

\* A document that carried an entity, with one token in and one token out of
\* the allow-list.
C5_Witness ==
    /\ lpc = "done"
    /\ \E k \in 1..Len(loaded) :
          /\ corpus[k].ents # {}
          /\ corpus[k].pos = <<"NOUN", "DET">>
          /\ all_labels = {"DET", "PROPN"}
          /\ loaded[k].ents = {Span(1, 2, "DET")}

\* C6 as stated: a document gets exactly K spans, K the number of distinct
\* allow-listed tags present among its tokens (zero if none is present).
C6_SpansPerDistinctTag ==
    lpc = "done" =>
        \A k \in 1..Len(loaded) :
            Cardinality(loaded[k].ents) =
                Cardinality(PresentTags(corpus[k], all_labels))

\* C6 as amended: a document gets exactly one span per token whose tag is in
\* the allow-list, which is at least K and is K when no allow-listed tag
\* occurs on two tokens, and zero spans if the allow-list matches no token.
C6_SpansPerMatchingToken ==
    lpc = "done" =>
        \A k \in 1..Len(loaded) :
            LET n == Cardinality(loaded[k].ents)
                K == Cardinality(PresentTags(corpus[k], all_labels))
            IN  /\ n = Cardinality(MatchingTokens(corpus[k], all_labels))
                /\ n >= K
                /\ K = 0 => n = 0
                /\ (\A i, j \in MatchingTokens(corpus[k], all_labels) :
                        corpus[k].pos[i + 1] = corpus[k].pos[j + 1] => i = j) => n = K

\* A document with two tokens of one allow-listed tag, and a document none
\* of whose tokens is allow-listed.
C6_Witness ==
    /\ lpc = "done"
    /\ Len(loaded) = 2
    /\ corpus[1].pos = <<"DET", "DET">> /\ Cardinality(loaded[1].ents) = 2
    /\ corpus[2].pos = <<"NOUN">> /\ loaded[2].ents = {}
    /\ all_labels = {"DET"}

----------------------------------------------------------------------------
(* Properties of tag_all *)

\* The documents as passed: tag_all is called on the objects 1..n.
OriginalDocs == [i \in 1..Len(docs) |-> i]

\* C7: the calls are made document by document and, for a document, in list
\* order; the first function receives the list element and every later one
\* the value the previous call returned; once every function has run, the
\* working document carries the annotations 1, 2, ..., n in this order; with
\* no function nothing is called and the documents are returned unchanged.
C7_CallsInListOrder ==
    /\ \A n \in 1..Len(calls) :
          LET c == calls[n]
          IN  /\ c.doc \in 1..Len(docs) /\ c.lf \in 1..Len(lfs)
              /\ n = 1 => (c.doc = 1 /\ c.lf = 1)
              /\ c.lf = 1 => c.arg = OriginalDocs[c.doc]
              /\ (n > 1 /\ c.lf = 1) =>
                    (calls[n - 1].doc = c.doc - 1 /\ calls[n - 1].lf = Len(lfs))
              /\ c.lf > 1 =>
                    /\ calls[n - 1].doc = c.doc
                    /\ calls[n - 1].lf = c.lf - 1
                    /\ c.arg = calls[n - 1].out
              /\ (c.lf = Len(lfs) /\ c.out # 0) =>
                    heap[c.out] = [j \in 1..Len(lfs) |-> j]
    /\ tpc = "returned" =>
          /\ Len(calls) = Len(docs) * Len(lfs)
          /\ lfs = <<>> =>
                (ret = OriginalDocs /\ \A i \in 1..Len(ret) : heap[ret[i]] = <<>>)

\* Two documents through [f, g] with f returning a new object: g is called
\* on what f returned, and the first document is finished before the second.
C7_Witness ==
    /\ tpc = "returned"
    /\ Len(docs) = 2 /\ Len(lfs) = 2
    /\ lfs[1] = "fresh"
    /\ Len(calls) = 4
    /\ calls[2].arg = calls[1].out /\ calls[1].out # calls[1].arg
    /\ heap[calls[4].out] = <<1, 2>>

\* C8: once a labeling function has raised, that call is the last one made,
\* tag_all is left by the exception and never returns, and the raising step
\* and everything after it leave the documents as the earlier calls made
\* them.
C8_FailurePropagates ==
    /\ [](\A n \in 1..Len(calls) :
             calls[n].out = 0 => (n = Len(calls) /\ tpc = "raised"))
    /\ [](tpc = "raised" =>
             /\ calls # <<>> /\ calls[Len(calls)].out = 0
             /\ \A n \in 1..Len(calls) :
                   calls[n].out = calls[n].arg =>
                       \E k \in 1..Len(heap[calls[n].arg]) :
                           heap[calls[n].arg][k] = calls[n].lf)
    /\ [][tpc' = "raised" => heap' = heap]_vars
    /\ [][tpc = "raised" => UNCHANGED vars]_vars

\* The second function fails on the second document after the first document
\* and the first function on the second have been annotated in place.
C8_Witness ==
    /\ tpc = "raised"
    /\ Len(docs) = 2 /\ Len(lfs) = 3
    /\ Len(calls) = 5
    /\ calls[5].doc = 2 /\ calls[5].lf = 2
    /\ heap[1] = <<1, 2, 3>> /\ heap[2] = <<1>>

\* C9: the list is never changed, the returned sequence is the input
\* sequence with the same object at every position, and no object that a
\* labeling function created is in it.
C9_ReturnsInputSequence ==
    /\ [][docs' = docs]_vars
    /\ [](tpc = "returned" =>
             /\ ret = OriginalDocs
             /\ \A n \in 1..Len(calls) :
                   calls[n].out # calls[n].arg =>
                       \A i \in 1..Len(ret) : ret[i] # calls[n].out)

\* A labeling function returned a new object, which the caller does not get:
\* the returned document carries none of the annotations.
C9_Witness ==
    /\ tpc = "returned"
    /\ Len(docs) = 2
    /\ lfs = <<"fresh", "inplace">>
    /\ ret = <<1, 2>>
    /\ heap[1] = <<>> /\ heap[2] = <<>>
    /\ heap[calls[2].out] = <<1, 2>>

============================================================================
